---- MODULE Spec2Model ----
(***************************************************************************)
(* A model of the Casbin Redis watcher (watcher.go, options.go).           *)
(*                                                                         *)
(* Every watcher handle is one process holding a Watcher struct.  The     *)
(* caller-side operations lock the watcher's mutex for their whole body,  *)
(* so each is one atomic action.  The goroutine started by subscribe()    *)
(* is modelled step by step (receive + shutdown check, callback read +    *)
(* invocation, callback return).  The bus is the Redis server: a publish  *)
(* is appended, atomically, to the receive stream of every connection     *)
(* whose subscription the server has registered.  The client call         *)
(* Subscribe(channel) only writes the SUBSCRIBE command and does not wait  *)
(* for the server's confirmation, so the registration is a separate step  *)
(* of the bus.                                                            *)
(***************************************************************************)
EXTENDS Integers, Sequences, FiniteSets, TLC

\* ------------------------------------------------------------------------
\* Bounds
\* ------------------------------------------------------------------------
\* The watcher handles, in the order callers construct them.
Handles == <<"w1", "w2">>
Watchers == {Handles[i] : i \in DOMAIN Handles}

\* caller-side calls (Update*, SetUpdateCallback, Close), over all watchers
MaxCalls == 2
\* publish attempts made by Update* operations, over all watchers
MaxPublish == 1
\* SetUpdateCallback calls made by callers, over all watchers
MaxSetCallback == 1
\* Close calls per watcher
MaxClose == 2

\* runtime.NumCPU() of the host
NumCPU == 2

\* ------------------------------------------------------------------------
\* Go values and their JSON encoding (MSG.MarshalBinary / UnmarshalBinary)
\* ------------------------------------------------------------------------
\* A Go value stored in MSG.Params (an interface{}): k is the dynamic type,
\* isNil tells a nil slice/map/interface from an empty one, v the elements.
GoString(s) == [k |-> "string", isNil |-> FALSE, v |-> <<s>>]
GoStrings(isNil, elems) == [k |-> "[]string", isNil |-> isNil, v |-> elems]
GoModel(isNil, rules) == [k |-> "model.Model", isNil |-> isNil, v |-> rules]
GoAnys(elems) == [k |-> "[]interface{}", isNil |-> FALSE, v |-> elems]
GoMap(elems) == [k |-> "map[string]interface{}", isNil |-> FALSE, v |-> elems]
GoNil == [k |-> "nil", isNil |-> TRUE, v |-> <<>>]

\* encoding/json of a value held in an interface{}: a nil slice or map is
\* written as null, a string as a JSON string, a slice as an array, a map as
\* an object.
jsonValue(g) ==
    IF g.isNil THEN [j |-> "null", v |-> <<>>]
    ELSE IF g.k = "string" THEN [j |-> "string", v |-> g.v]
    ELSE IF g.k \in {"[]string", "[]interface{}"} THEN [j |-> "array", v |-> g.v]
    ELSE [j |-> "object", v |-> g.v]

\* json.Unmarshal into an interface{}: null gives nil, a JSON string a Go
\* string, an array a []interface{}, an object a map[string]interface{}.
goValue(jv) ==
    IF jv.j = "null" THEN GoNil
    ELSE IF jv.j = "string" THEN GoString(jv.v[1])
    ELSE IF jv.j = "array" THEN GoAnys(jv.v)
    ELSE GoMap(jv.v)

\* The envelope.
MSG(method, id, sec, ptype, params) ==
    [Method |-> method, ID |-> id, Sec |-> sec, Ptype |-> ptype, Params |-> params]

\* json.Marshal(m): the payload put on the wire.
MarshalBinary(m) ==
    [t |-> "json", Method |-> m.Method, ID |-> m.ID, Sec |-> m.Sec,
     Ptype |-> m.Ptype, Params |-> jsonValue(m.Params)]

\* The plain string published by Close().
CloseNotice == [t |-> "raw", s |-> "Close"]

\* json.Unmarshal(data, m): fails on anything that is not a JSON object.
UnmarshalOk(p) == p.t = "json"
\* A decoder that reads Sec and Ptype from each other's key.
UnmarshalBinarySwapped(p) == MSG(p.Method, p.ID, p.Ptype, p.Sec, goValue(p.Params))
UnmarshalBinary(p) == MSG(p.Method, p.ID, p.Sec, p.Ptype, goValue(p.Params))

\* strings.Join(elems, sep)
RECURSIVE Join(_, _)
Join(elems, sep) ==
    IF elems = <<>> THEN ""
    ELSE IF Len(elems) = 1 THEN elems[1]
    ELSE elems[1] \o sep \o Join(Tail(elems), sep)

\* ------------------------------------------------------------------------
\* WatcherOptions (options.go)
\* ------------------------------------------------------------------------
Opt(addrs, ns, sentinel, master, channel, localID, cb, maxc, injected) ==
    [Addresses |-> addrs, Namespace |-> ns, UseSentinel |-> sentinel,
     MasterName |-> master, Channel |-> channel, LocalID |-> localID,
     OptionalUpdateCallback |-> cb, MaxConnections |-> maxc,
     SubClient |-> injected, PubClient |-> injected, Addr |-> ""]

\* The Go zero value WatcherOptions{}.
ZeroOptions == Opt(<<>>, "", FALSE, "", "", "", "nil", 0, "nil")

\* The option bundles callers construct watchers with.
OptionInputs ==
    { Opt(<<"127.0.0.1:6379">>, "foo", FALSE, "", "", "", "nil", 0, "nil"),
      Opt(<<"n1:7000", "n2:7000">>, "foo", FALSE, "", "/other", "node-a", "opt", 5, "nil"),
      Opt(<<"s1:26379">>, "foo", TRUE, "mymaster", "", "node-a", "nil", 0, "injected"),
      Opt(<<>>, "foo", FALSE, "", "", "", "nil", 0, "nil"),
      Opt(<<"">>, "foo", FALSE, "", "", "", "nil", 0, "nil"),
      Opt(<<"127.0.0.1:6379">>, "", FALSE, "", "", "", "nil", 0, "nil"),
      Opt(<<"s1:26379">>, "foo", TRUE, "", "", "", "nil", 0, "nil"),
      Opt(<<>>, "", TRUE, "", "", "", "opt", 0, "nil") }

\* The valid bundles two watchers that run side by side are built with: the
\* same channel with generated identifiers, or another channel.
PeerOptionInputs ==
    { Opt(<<"127.0.0.1:6379">>, "foo", FALSE, "", "", "", "nil", 0, "nil"),
      Opt(<<"n1:7000", "n2:7000">>, "foo", FALSE, "", "/other", "node-a", "opt", 5, "nil") }

\* The option bundles callers hand to NewPublishWatcher.
PublishOptionInputs ==
    { Opt(<<>>, "", FALSE, "", "", "", "opt", 0, "nil") }

\* uuid.New().String(): a fresh token, different for every watcher.
NewUUID(w) == "uuid-" \o w

\* func initConfig(option *WatcherOptions)
initConfig(w, o) ==
    [o EXCEPT !.LocalID = IF o.LocalID = "" THEN NewUUID(w) ELSE o.LocalID,
              !.Channel = IF o.Channel = "" THEN "/casbin" ELSE o.Channel]

\* The configuration checks with the namespace check left out.
ValidateOptionsNoNamespace(o) ==
    IF Len(o.Addresses) = 0 \/ o.Addresses[1] = ""
        THEN "redis: missing redis node address(es)"
    ELSE IF o.UseSentinel /\ o.MasterName = ""
        THEN "redis: missing MasterName for Sentinel setup"
    ELSE "nil"

\* The three configuration checks at the head of NewWatcher.
ValidateOptions(o) ==
    IF Len(o.Addresses) = 0 \/ o.Addresses[1] = ""
        THEN "redis: missing redis node address(es)"
    ELSE IF o.Namespace = ""
        THEN "redis: missing key namespace"
    ELSE IF o.UseSentinel /\ o.MasterName = ""
        THEN "redis: missing MasterName for Sentinel setup"
    ELSE "nil"

\* option.MaxConnections == 0 -> 10 * runtime.NumCPU()
DefaultMaxConnections(o) ==
    [o EXCEPT !.MaxConnections = IF o.MaxConnections = 0 THEN 10 * NumCPU
                                 ELSE o.MaxConnections]

\* Which client NewWatcher builds for both connections.
Topology(o) ==
    IF o.UseSentinel THEN "failover"
    ELSE IF Len(o.Addresses) > 1 THEN "cluster"
    ELSE "single"

\* (w *Watcher) initConfig: the callback installed at construction.
InitialCallback(o) ==
    IF o.OptionalUpdateCallback # "nil" THEN o.OptionalUpdateCallback ELSE "default"

\* (w *Watcher) initConfig: an injected client replaces the built one.
ClientKind(o, injected) == IF injected # "nil" THEN "injected" ELSE Topology(o)

\* The probes with the result of the pub probe ignored.
PingErrorSubOnly(subPingOk, pubPingOk) ==
    IF ~subPingOk THEN "sub ping failed" ELSE "nil"

\* The two liveness probes of NewWatcher, in order: sub first, then pub.
PingError(subPingOk, pubPingOk) ==
    IF ~subPingOk THEN "sub ping failed"
    ELSE IF ~pubPingOk THEN "pub ping failed"
    ELSE "nil"

\* What became of each probe: the pub probe is sent only after the sub probe
\* was answered.
SubPing(subPingOk) == IF subPingOk THEN "ok" ELSE "failed"
PubPing(subPingOk, pubPingOk) ==
    IF ~subPingOk THEN "unsent" ELSE IF pubPingOk THEN "ok" ELSE "failed"

\* ------------------------------------------------------------------------
\* State
\* ------------------------------------------------------------------------
VARIABLES
    ctor,       \* per handle: which constructor ran and what it did
    options,    \* Watcher.options
    callback,   \* Watcher.callback
    cbWrites,   \* the values written to Watcher.callback so far
    closeCh,    \* Watcher.close: "nil", "open" or "closed"
    subClient,  \* Watcher.subClient: "nil", "open" or "closed"
    pubClient,  \* Watcher.pubClient: "nil", "open" or "closed"
    subscr,     \* the PubSub sub: "none", "pending", "active" or "closed"
    ch,         \* the receive stream of sub (sub.Channel())
    pc,         \* the subscriber goroutine: none, recv, call, incb, closed, panic
    cur,        \* the message the goroutine holds, and the callback registered
                \* when it was received
    released,   \* the close steps the goroutine's deferred function has run
    panicked,   \* "none", or the place an unrecovered panic was raised
    sent,       \* history: every publish attempt, with the error returned
    invoked,    \* history: every callback invocation, per watcher
    calls,      \* how many calls the callers have made so far
    l,          \* Watcher.l: "unlocked", or the operation that holds it
    got,        \* what GetWatcherOptions returned last, and where the
                \* goroutine stood during the call
    closeErrs   \* the close steps of the deferred function that returned an
                \* error (each is logged)

vars == <<ctor, options, callback, cbWrites, closeCh, subClient, pubClient,
          subscr, ch, pc, cur, released, panicked, sent, invoked, calls,
          l, got, closeErrs>>

NoCtor == [fn |-> "none", arg |-> ZeroOptions, err |-> "nil", conns |-> 0,
           subPing |-> "unsent", pubPing |-> "unsent", subs |-> 0,
           kind |-> "none"]
NoMsg == [t |-> "none"]
NoCur == [msg |-> NoMsg, reg |-> "nil"]
NoGot == [called |-> FALSE, ret |-> ZeroOptions, during |-> "none"]

Init ==
    /\ ctor = [w \in Watchers |-> NoCtor]
    /\ options = [w \in Watchers |-> ZeroOptions]
    /\ callback = [w \in Watchers |-> "nil"]
    /\ cbWrites = [w \in Watchers |-> {}]
    /\ closeCh = [w \in Watchers |-> "nil"]
    /\ subClient = [w \in Watchers |-> "nil"]
    /\ pubClient = [w \in Watchers |-> "nil"]
    /\ subscr = [w \in Watchers |-> "none"]
    /\ ch = [w \in Watchers |-> <<>>]
    /\ pc = [w \in Watchers |-> "none"]
    /\ cur = [w \in Watchers |-> NoCur]
    /\ released = [w \in Watchers |-> <<>>]
    /\ panicked = [w \in Watchers |-> "none"]
    /\ sent = <<>>
    /\ invoked = [w \in Watchers |-> <<>>]
    /\ calls = [pub |-> 0, set |-> 0, get |-> 0,
                close |-> [w \in Watchers |-> 0]]
    /\ l = [w \in Watchers |-> "unlocked"]
    /\ got = [w \in Watchers |-> NoGot]
    /\ closeErrs = [w \in Watchers |-> {}]

\* A handle a constructor returned without error, in a live process.
Returned(w) == ctor[w].fn # "none" /\ ctor[w].err = "nil"
Alive(w) == Returned(w) /\ panicked[w] = "none"

\* Callers take the handles in order.
NextHandle(w) ==
    /\ ctor[w].fn = "none"
    /\ \A i \in DOMAIN Handles :
          Handles[i] = w => \A j \in 1..(i - 1) : ctor[Handles[j]].fn # "none"

\* ------------------------------------------------------------------------
\* Construction
\* ------------------------------------------------------------------------
\* NewWatcher(option): validation, defaults, the two clients, the callback,
\* the two probes, w.options, subscribe() up to wg.Wait().
NewWatcher(w, o, subPingOk, pubPingOk) ==
    /\ NextHandle(w)
    /\ LET cfgErr == ValidateOptions(o)
           opt == initConfig(w, DefaultMaxConnections(o))
           pingErr == PingError(subPingOk, pubPingOk)
       IN  IF cfgErr # "nil"
           THEN /\ ctor' = [ctor EXCEPT ![w] =
                        [fn |-> "NewWatcher", arg |-> o, err |-> cfgErr,
                         conns |-> 0, subPing |-> "unsent",
                         pubPing |-> "unsent", subs |-> 0, kind |-> "none"]]
                /\ UNCHANGED <<options, callback, cbWrites, closeCh, subClient,
                               pubClient, subscr, pc>>
           ELSE IF pingErr # "nil"
           THEN /\ ctor' = [ctor EXCEPT ![w] =
                        [fn |-> "NewWatcher", arg |-> o, err |-> pingErr,
                         conns |-> 2, subPing |-> SubPing(subPingOk),
                         pubPing |-> PubPing(subPingOk, pubPingOk),
                         subs |-> 0, kind |-> "none"]]
                /\ UNCHANGED <<options, callback, cbWrites, closeCh, subClient,
                               pubClient, subscr, pc>>
           ELSE /\ ctor' = [ctor EXCEPT ![w] =
                        [fn |-> "NewWatcher", arg |-> o, err |-> "nil",
                         conns |-> 2, subPing |-> SubPing(subPingOk),
                         pubPing |-> PubPing(subPingOk, pubPingOk),
                         subs |-> 1, kind |-> ClientKind(opt, opt.SubClient)]]
                /\ options' = [options EXCEPT ![w] = opt]
                /\ callback' = [callback EXCEPT ![w] = InitialCallback(opt)]
                /\ cbWrites' = [cbWrites EXCEPT ![w] = {InitialCallback(opt)}]
                /\ closeCh' = [closeCh EXCEPT ![w] = "open"]
                /\ subClient' = [subClient EXCEPT ![w] = "open"]
                /\ pubClient' = [pubClient EXCEPT ![w] = "open"]
                /\ subscr' = [subscr EXCEPT ![w] = "pending"]
                /\ pc' = [pc EXCEPT ![w] = "recv"]
    /\ UNCHANGED <<ch, cur, released, panicked, sent, invoked, calls, l, got,
                   closeErrs>>

\* NewPublishWatcher(addr, option): one client, no validation, no probe, no
\* callback, no subscription.
NewPublishWatcher(w, addr, o) ==
    /\ NextHandle(w)
    /\ ctor' = [ctor EXCEPT ![w] =
            [fn |-> "NewPublishWatcher", arg |-> o, err |-> "nil", conns |-> 1,
             subPing |-> "unsent", pubPing |-> "unsent", subs |-> 0,
             kind |-> "single"]]
    /\ options' = [options EXCEPT ![w] = initConfig(w, [o EXCEPT !.Addr = addr])]
    /\ closeCh' = [closeCh EXCEPT ![w] = "open"]
    /\ pubClient' = [pubClient EXCEPT ![w] = "open"]
    /\ UNCHANGED <<callback, cbWrites, subClient, subscr, ch, pc, cur,
                   released, panicked, sent, invoked, calls, l, got, closeErrs>>

\* ------------------------------------------------------------------------
\* The bus
\* ------------------------------------------------------------------------
\* The server registers a subscription whose SUBSCRIBE command it has read.
BusActivate(w) ==
    /\ subscr[w] = "pending"
    /\ subscr' = [subscr EXCEPT ![w] = "active"]
    /\ UNCHANGED <<ctor, options, callback, cbWrites, closeCh, subClient,
                   pubClient, ch, pc, cur, released, panicked, sent, invoked,
                   calls, l, got, closeErrs>>

\* The connections a publish on channel c is delivered to.
Subscribers(c) ==
    {v \in Watchers : subscr[v] = "active" /\ options[v].Channel = c
                      /\ panicked[v] = "none"}

\* The handles that were returned, not closed and configured for channel c.
Usable(c) ==
    {v \in Watchers : Alive(v) /\ closeCh[v] = "open" /\ options[v].Channel = c}

\* w.pubClient.Publish(channel, payload).Err()
PublishErr(w, transportOk) ==
    IF pubClient[w] # "open" THEN "redis: client is closed"
    ELSE IF transportOk THEN "nil"
    ELSE "transport error"

\* The message argument of a publish that is not an envelope.
NoEnvelope == MSG("", "", "", "", GoNil)

\* The effect of one publish attempt on the bus and on the history.
Publish(w, method, call, m, payload, err, ret) ==
    LET c == options[w].Channel
        to == IF err = "nil" THEN Subscribers(c) ELSE {}
    IN  /\ ch' = [v \in Watchers |->
                    IF v \in to THEN Append(ch[v], payload) ELSE ch[v]]
        /\ sent' = Append(sent, [from |-> w, method |-> method, call |-> call,
                                 id |-> options[w].LocalID, chan |-> c,
                                 msg |-> m, payload |-> payload,
                                 usable |-> Usable(c),
                                 to |-> to, err |-> err, ret |-> ret])

\* ------------------------------------------------------------------------
\* Caller-side operations
\* ------------------------------------------------------------------------
\* The calls callers have made so far.
CallsMade ==
    LET RECURSIVE Closes(_)
        Closes(i) == IF i = 0 THEN 0 ELSE calls.close[Handles[i]] + Closes(i - 1)
    IN  calls.pub + calls.set + calls.get + Closes(Len(Handles))

Budget == CallsMade < MaxCalls

\* The arguments of an Update* call.
Call(sec, ptype, fieldIndex, values) ==
    [sec |-> sec, ptype |-> ptype, fieldIndex |-> fieldIndex, values |-> values]

\* The (sec, ptype, params...) callers pass to UpdateForAddPolicy and
\* UpdateForRemovePolicy: three values, or none (a nil slice).
PolicyArgs ==
    { Call("p", "p2", 0, GoStrings(FALSE, <<"alice", "book1", "write">>)),
      Call("g", "g2", 0, GoStrings(TRUE, <<>>)) }

\* The (sec, ptype, fieldIndex, fieldValues...) callers pass to
\* UpdateForRemoveFilteredPolicy.
FilteredArgs ==
    { Call("p", "p2", 1, GoStrings(FALSE, <<"data1", "read">>)),
      Call("p", "p", 12, GoStrings(FALSE, <<"alice">>)),
      Call("g", "g2", 0, GoStrings(TRUE, <<>>)) }

\* The model snapshots callers pass to UpdateForSavePolicy.
ModelArgs ==
    { Call("", "", 0, GoModel(FALSE, <<"p", "p", "alice,data1,read">>)) }

\* logRecord logging the error and returning nil.
logRecordSwallow(err) == "nil"

\* logRecord(f): logs the error of f and returns it.
logRecord(err) == err

\* The envelope each Update* operation builds.
UpdateMSG(id) == MSG("Update", id, "", "", GoString(""))
AddPolicyMSGSwapped(id, c) == MSG("UpdateForAddPolicy", id, c.ptype, c.sec, c.values)
AddPolicyMSG(id, c) == MSG("UpdateForAddPolicy", id, c.sec, c.ptype, c.values)
RemovePolicyMSG(id, c) == MSG("UpdateForRemovePolicy", id, c.sec, c.ptype, c.values)
RemoveFilteredPolicyMSGComma(id, c) ==
    MSG("UpdateForRemoveFilteredPolicy", id, c.sec, c.ptype,
        GoString(ToString(c.fieldIndex) \o " " \o Join(c.values.v, ",")))
RemoveFilteredPolicyMSG(id, c) ==
    MSG("UpdateForRemoveFilteredPolicy", id, c.sec, c.ptype,
        GoString(ToString(c.fieldIndex) \o " " \o Join(c.values.v, " ")))
SavePolicyMSG(id, c) == MSG("UpdateForSavePolicy", id, "", "", c.values)

\* w.l.Lock(): the mutex is free.
Lockable(w) == l[w] = "unlocked"

\* An Unlock that is skipped when the publish returned an error.
UnlockOnSuccess(op, err) == IF err = "nil" THEN "unlocked" ELSE op

\* defer w.l.Unlock(): the mutex is released on every return path.
DeferredUnlock(op, err) == "unlocked"

\* The common body of the five Update* operations: lock, one publish of the
\* marshalled envelope on options.Channel, deferred unlock, logRecord.
UpdateCall(w, method, call, m, transportOk) ==
    /\ Alive(w)
    /\ Budget /\ calls.pub < MaxPublish
    /\ Lockable(w)
    /\ LET err == PublishErr(w, transportOk) IN
        /\ Publish(w, method, call, m, MarshalBinary(m), err, logRecord(err))
        /\ l' = [l EXCEPT ![w] = DeferredUnlock(method, err)]
    /\ calls' = [calls EXCEPT !.pub = @ + 1]
    /\ UNCHANGED <<ctor, options, callback, cbWrites, closeCh, subClient,
                   pubClient, subscr, pc, cur, released, panicked, invoked,
                   got, closeErrs>>

Update(w, transportOk) ==
    UpdateCall(w, "Update", Call("", "", 0, GoNil),
               UpdateMSG(options[w].LocalID), transportOk)

UpdateForAddPolicy(w, c, transportOk) ==
    UpdateCall(w, "UpdateForAddPolicy", c,
               AddPolicyMSG(options[w].LocalID, c), transportOk)

UpdateForRemovePolicy(w, c, transportOk) ==
    UpdateCall(w, "UpdateForRemovePolicy", c,
               RemovePolicyMSG(options[w].LocalID, c), transportOk)

UpdateForRemoveFilteredPolicy(w, c, transportOk) ==
    UpdateCall(w, "UpdateForRemoveFilteredPolicy", c,
               RemoveFilteredPolicyMSG(options[w].LocalID, c), transportOk)

UpdateForSavePolicy(w, c, transportOk) ==
    UpdateCall(w, "UpdateForSavePolicy", c,
               SavePolicyMSG(options[w].LocalID, c), transportOk)

\* The callbacks callers register after construction.
CallbackInputs == {"nil", "fn1"}

\* SetUpdateCallback(callback): lock, store, unlock; always returns nil.
SetUpdateCallback(w, cb) ==
    /\ Alive(w)
    /\ Budget /\ calls.set < MaxSetCallback
    /\ Lockable(w)
    /\ callback' = [callback EXCEPT ![w] = cb]
    /\ cbWrites' = [cbWrites EXCEPT ![w] = @ \cup {cb}]
    /\ calls' = [calls EXCEPT !.set = @ + 1]
    /\ UNCHANGED <<ctor, options, closeCh, subClient, pubClient, subscr, ch,
                   pc, cur, released, panicked, sent, invoked, l, got,
                   closeErrs>>

\* GetWatcherOptions(): lock, return a copy of w.options, deferred unlock.
GetWatcherOptions(w) ==
    /\ Alive(w)
    /\ Budget
    /\ Lockable(w)
    /\ got' = [got EXCEPT ![w] = [called |-> TRUE, ret |-> options[w],
                                  during |-> pc[w]]]
    /\ l' = [l EXCEPT ![w] = DeferredUnlock("GetWatcherOptions", "nil")]
    /\ calls' = [calls EXCEPT !.get = @ + 1]
    /\ UNCHANGED <<ctor, options, callback, cbWrites, closeCh, subClient,
                   pubClient, subscr, ch, pc, cur, released, panicked, sent,
                   invoked, closeErrs>>

\* close(w.close): closing a channel that is already closed panics.
CloseOfClosedChannel(w) == closeCh[w] = "closed"

\* The two statements of Close() with the notice published first.
CloseOrderPublishFirst == <<"publish", "signal">>

\* The two statements of Close() after the lock: close(w.close), then
\* w.pubClient.Publish(w.options.Channel, "Close") (result ignored).
CloseOrder == <<"signal", "publish">>

\* One statement of Close().  The panic of a second close(w.close) unwinds
\* through the deferred Unlock into the caller.
CloseStep(w, step, transportOk) ==
    IF step = "signal"
    THEN IF CloseOfClosedChannel(w)
         THEN /\ panicked' = [panicked EXCEPT ![w] = "Close"]
              /\ UNCHANGED <<closeCh, ch, sent>>
         ELSE /\ closeCh' = [closeCh EXCEPT ![w] = "closed"]
              /\ UNCHANGED <<panicked, ch, sent>>
    ELSE /\ Publish(w, "Close", Call("", "", 0, GoNil), NoEnvelope,
                    CloseNotice, PublishErr(w, transportOk), "nil")
         /\ UNCHANGED <<closeCh, panicked>>

\* Close() from its call to the end of its first statement: the mutex stays
\* held unless the statement panicked.
CloseBegin(w, transportOk) ==
    /\ Alive(w)
    /\ Budget /\ calls.close[w] < MaxClose
    /\ Lockable(w)
    /\ calls' = [calls EXCEPT !.close[w] = @ + 1]
    /\ CloseStep(w, CloseOrder[1], transportOk)
    /\ l' = [l EXCEPT ![w] = IF panicked'[w] = "none" THEN "Close"
                             ELSE DeferredUnlock("Close", "panic")]
    /\ UNCHANGED <<ctor, options, callback, cbWrites, subClient, pubClient,
                   subscr, pc, cur, released, invoked, got, closeErrs>>

\* Close() from its second statement to its return (deferred unlock).
CloseEnd(w, transportOk) ==
    /\ Alive(w)
    /\ l[w] = "Close"
    /\ CloseStep(w, CloseOrder[2], transportOk)
    /\ l' = [l EXCEPT ![w] = DeferredUnlock("Close", "nil")]
    /\ UNCHANGED <<ctor, options, callback, cbWrites, subClient, pubClient,
                   subscr, pc, cur, released, invoked, calls, got, closeErrs>>

\* ------------------------------------------------------------------------
\* The subscriber goroutine (the go func of subscribe())
\* ------------------------------------------------------------------------
\* The newest message of the stream instead of the oldest.
NextMsgLast(q) == q[Len(q)]

\* for msg := range ch: the next message of the stream.
NextMsg(q) == Head(q)
RestMsgs(q) == Tail(q)

\* A loop without the shutdown check.
ShutdownNeverSeen(w) == FALSE

\* select { case <-w.close: return; default: }
ShutdownRequested(w) == closeCh[w] = "closed"

\* The read of w.callback in w.callback(data) is made without the mutex while
\* SetUpdateCallback writes it under the mutex: a data race.  No operation of
\* the goroutine synchronises with the writers, so the read may return any
\* value written so far.
RacyRead(w) == cbWrites[w]

\* The close steps with the publish connection closed first.
ReleaseOrderPubFirst == <<"pubClient", "sub", "subClient">>

\* The order of the close steps of the deferred function.
ReleaseOrder == <<"sub", "pubClient", "subClient">>

\* The close steps that return an error when the goroutine ends.
CloseErrorInputs == {{}, {"sub"}, {"pubClient", "subClient"}}
NoCloseErrors == {{}}

\* The deferred function: sub.Close(), w.pubClient.Close(),
\* w.subClient.Close(); the error of a step is logged and the next step runs.
Release(w, errs) ==
    /\ subscr' = [subscr EXCEPT ![w] = "closed"]
    /\ pubClient' = [pubClient EXCEPT ![w] = "closed"]
    /\ subClient' = [subClient EXCEPT ![w] = "closed"]
    /\ released' = [released EXCEPT ![w] = @ \o ReleaseOrder]
    /\ closeErrs' = [closeErrs EXCEPT ![w] = errs]

\* One iteration up to the shutdown check: take the next message; if the
\* shutdown signal is set return (running the deferred function), else keep
\* the message for dispatch.
LoopReceive(w, errs) ==
    /\ panicked[w] = "none"
    /\ pc[w] = "recv"
    /\ ch[w] # <<>>
    /\ IF ShutdownRequested(w)
       THEN /\ Release(w, errs)
            /\ ch' = [ch EXCEPT ![w] = <<>>]
            /\ pc' = [pc EXCEPT ![w] = "closed"]
            /\ UNCHANGED cur
       ELSE /\ errs = {}
            /\ cur' = [cur EXCEPT ![w] = [msg |-> NextMsg(ch[w]),
                                        reg |-> callback[w]]]
            /\ ch' = [ch EXCEPT ![w] = RestMsgs(ch[w])]
            /\ pc' = [pc EXCEPT ![w] = "call"]
            /\ UNCHANGED <<subscr, pubClient, subClient, released, closeErrs>>
    /\ UNCHANGED <<ctor, options, callback, cbWrites, closeCh, panicked, sent,
                   invoked, calls, l, got>>

\* data := msg.Payload; w.callback(data): read the callback and call it with
\* the raw payload.  Calling a nil func panics; the deferred function runs
\* while the panic unwinds.
LoopInvoke(w, errs) ==
    /\ panicked[w] = "none"
    /\ pc[w] = "call"
    /\ \E cb \in RacyRead(w) :
        IF cb = "nil"
        THEN /\ Release(w, errs)
             /\ ch' = [ch EXCEPT ![w] = <<>>]
             /\ pc' = [pc EXCEPT ![w] = "panic"]
             /\ panicked' = [panicked EXCEPT ![w] = "callback"]
             /\ UNCHANGED invoked
        ELSE /\ errs = {}
             /\ invoked' = [invoked EXCEPT ![w] =
                    Append(@, [cb |-> cb, payload |-> cur[w].msg,
                               regRecv |-> cur[w].reg, reg |-> callback[w],
                               shut |-> closeCh[w] = "closed"])]
             /\ pc' = [pc EXCEPT ![w] = "incb"]
             /\ UNCHANGED <<subscr, pubClient, subClient, released, ch, panicked,
                            closeErrs>>
    /\ UNCHANGED <<ctor, options, callback, cbWrites, closeCh, cur, sent,
                   calls, l, got>>

\* The callback returns; the goroutine goes back to range ch.
LoopReturn(w) ==
    /\ panicked[w] = "none"
    /\ pc[w] = "incb"
    /\ pc' = [pc EXCEPT ![w] = "recv"]
    /\ cur' = [cur EXCEPT ![w] = NoCur]
    /\ UNCHANGED <<ctor, options, callback, cbWrites, closeCh, subClient,
                   pubClient, subscr, ch, released, panicked, sent, invoked,
                   calls, l, got, closeErrs>>

\* ------------------------------------------------------------------------
\* Specifications
\* ------------------------------------------------------------------------
\* The one argument list two watchers side by side publish.
OnePolicyArgs == {Call("p", "p2", 0, GoStrings(FALSE, <<"alice", "book1", "write">>))}

\* Two subscribing watchers side by side, built from valid configurations on
\* a reachable bus, exchanging Update and UpdateForAddPolicy notifications;
\* the Close notice is always accepted and no close step fails (SoloSpec has
\* the failing ones).
Next ==
    \/ \E w \in Watchers, o \in PeerOptionInputs : NewWatcher(w, o, TRUE, TRUE)
    \/ \E w \in Watchers : BusActivate(w)
    \/ \E w \in Watchers, ok \in BOOLEAN : Update(w, ok)
    \/ \E w \in Watchers, c \in OnePolicyArgs, ok \in BOOLEAN :
            UpdateForAddPolicy(w, c, ok)
    \/ \E w \in Watchers, cb \in CallbackInputs : SetUpdateCallback(w, cb)
    \/ \E w \in Watchers : CloseBegin(w, TRUE)
    \/ \E w \in Watchers : CloseEnd(w, TRUE)
    \/ \E w \in Watchers, errs \in NoCloseErrors : LoopReceive(w, errs)
    \/ \E w \in Watchers, errs \in NoCloseErrors : LoopInvoke(w, errs)
    \/ \E w \in Watchers : LoopReturn(w)

Spec == Init /\ [][Next]_vars

\* One watcher alone: every configuration, failing probes, every argument list.
Solo == {Handles[1]}

SoloNext ==
    \/ \E w \in Solo, o \in OptionInputs, s \in BOOLEAN, p \in BOOLEAN :
            NewWatcher(w, o, s, p)
    \/ \E w \in Solo, o \in PublishOptionInputs :
            NewPublishWatcher(w, "127.0.0.1:6379", o)
    \/ \E w \in Solo : BusActivate(w)
    \/ \E w \in Solo, ok \in BOOLEAN : Update(w, ok)
    \/ \E w \in Solo, c \in PolicyArgs, ok \in BOOLEAN : UpdateForAddPolicy(w, c, ok)
    \/ \E w \in Solo, c \in PolicyArgs, ok \in BOOLEAN : UpdateForRemovePolicy(w, c, ok)
    \/ \E w \in Solo, c \in FilteredArgs, ok \in BOOLEAN :
            UpdateForRemoveFilteredPolicy(w, c, ok)
    \/ \E w \in Solo, c \in ModelArgs, ok \in BOOLEAN : UpdateForSavePolicy(w, c, ok)
    \/ \E w \in Solo, cb \in CallbackInputs : SetUpdateCallback(w, cb)
    \/ \E w \in Solo : GetWatcherOptions(w)
    \/ \E w \in Solo : CloseBegin(w, TRUE)
    \/ \E w \in Solo, ok \in BOOLEAN : CloseEnd(w, ok)
    \/ \E w \in Solo, errs \in CloseErrorInputs : LoopReceive(w, errs)
    \/ \E w \in Solo, errs \in CloseErrorInputs : LoopInvoke(w, errs)
    \/ \E w \in Solo : LoopReturn(w)

SoloSpec == Init /\ [][SoloNext]_vars

\* ------------------------------------------------------------------------
\* Properties
\* ------------------------------------------------------------------------
Running(w) == pc[w] \in {"recv", "call", "incb"}

UpdateMethods ==
    {"Update", "UpdateForAddPolicy", "UpdateForRemovePolicy",
     "UpdateForRemoveFilteredPolicy", "UpdateForSavePolicy"}

ConfigErrors ==
    {"redis: missing redis node address(es)", "redis: missing key namespace",
     "redis: missing MasterName for Sentinel setup"}

IsPrefix(a, b) == Len(a) <= Len(b) /\ SubSeq(b, 1, Len(a)) = a

\* The payloads the bus put on w's receive stream, in order.
Delivered(w) ==
    LET d == SelectSeq(sent, LAMBDA e : w \in e.to)
    IN  [i \in 1..Len(d) |-> d[i].payload]

\* The payloads w's callback was invoked with, in order.
Dispatched(w) == [i \in 1..Len(invoked[w]) |-> invoked[w][i].payload]

\* The message the goroutine holds between the shutdown check and the call.
Held(w) == IF pc[w] = "call" THEN <<cur[w].msg>> ELSE <<>>

Occurrences(seq, x) == Cardinality({i \in DOMAIN seq : seq[i] = x})

\* C1: a second Close() on the same watcher is a no-op: it does not panic and
\* no connection is released a second time.
C1_SecondCloseIsNoOp ==
    \A w \in Watchers :
        /\ panicked[w] # "Close"
        /\ \A r \in {"sub", "pubClient", "subClient"} :
              Occurrences(released[w], r) <= 1

\* C2: every notification the bus accepts on a watcher's channel after
\* NewWatcher returned that watcher, and before the watcher is closed, is put
\* on the watcher's receive stream; none is missed.
C2_NoNotificationMissed ==
    \A i \in DOMAIN sent :
        sent[i].err = "nil" =>
            \A v \in sent[i].usable :
                ctor[v].fn = "NewWatcher" => v \in sent[i].to

\* A subscribing watcher that is open and has nothing left to process.
Idle(w) ==
    /\ ctor[w].fn = "NewWatcher" /\ Alive(w) /\ closeCh[w] = "open"
    /\ pc[w] = "recv" /\ ch[w] = <<>>

\* C3: a successful Update* publish by A on the channel of a constructed, open
\* watcher B has invoked B's callback, once B has nothing left to process,
\* with a payload that decodes to A's instance identifier (A = B included).
C3_PublishReachesCallback ==
    \A i \in DOMAIN sent : \A b \in Watchers :
        ( /\ sent[i].method \in UpdateMethods
          /\ sent[i].err = "nil"
          /\ b \in sent[i].usable
          /\ Idle(b) )
        => \E j \in DOMAIN invoked[b] :
              /\ invoked[b][j].payload = sent[i].payload
              /\ UnmarshalOk(invoked[b][j].payload)
              /\ UnmarshalBinary(invoked[b][j].payload).ID
                    = options[sent[i].from].LocalID

C4_State ==
    \A w \in Watchers :
        /\ IsPrefix(Dispatched(w), Delivered(w))
        /\ Running(w) => Delivered(w) = Dispatched(w) \o Held(w) \o ch[w]

C4_Step ==
    \A w \in Watchers :
        invoked'[w] # invoked[w] =>
            /\ pc[w] = "call" /\ pc'[w] = "incb"
            /\ invoked'[w] = Append(invoked[w], invoked'[w][Len(invoked'[w])])
            /\ invoked'[w][Len(invoked'[w])].payload = cur[w].msg

\* C4: while the loop runs, the callback is invoked exactly once per message
\* of the receive stream, in stream order (so in publish order for the
\* messages of one publisher), and an invocation begins only when the
\* previous one has returned.
C4_ExactlyOnceInOrder == [](C4_State) /\ [][C4_Step]_vars

C4_Witness ==
    \E w \in Watchers :
        /\ Len(invoked[w]) >= 2
        /\ invoked[w][1].payload # invoked[w][2].payload
        /\ \E v \in Watchers : v # w /\ Len(invoked[v]) >= 1

\* C5: a notification received after SetUpdateCallback(fn) returned is
\* dispatched to fn, the callback registered at that time, never to an
\* earlier one.
C5_LatestCallbackDispatched ==
    \A w \in Watchers : \A j \in DOMAIN invoked[w] :
        invoked[w][j].regRecv = invoked[w][j].reg
            => invoked[w][j].cb = invoked[w][j].reg

\* C6: the subscriber loop never invokes an unset (nil) callback, whatever
\* SetUpdateCallback calls were made.
C6_NeverInvokeUnsetCallback ==
    \A w \in Watchers : panicked[w] # "callback"

C7_Step ==
    \A w \in Watchers :
        (ctor[w].fn = "none" /\ ctor'[w].fn = "NewWatcher" /\ ctor'[w].err = "nil")
            => pc'[w] = "recv" /\ subscr'[w] = "pending" /\ closeCh'[w] = "open"

C7_State ==
    \A w \in Watchers :
        /\ (ctor[w].fn = "NewWatcher" /\ ctor[w].err = "nil") =>
              /\ ctor[w].subPing = "ok" /\ ctor[w].pubPing = "ok"
              /\ ctor[w].subs = 1 /\ pc[w] # "none" /\ subscr[w] # "none"
        /\ ctor[w].err # "nil" =>
              /\ ctor[w].fn = "NewWatcher"
              /\ "failed" \in {ctor[w].subPing, ctor[w].pubPing}
                    \/ ctor[w].err \in ConfigErrors
              /\ closeCh[w] = "nil" /\ pc[w] = "none" /\ subscr[w] = "none"
              /\ ctor[w].subs = 0
        /\ ("failed" \in {ctor[w].subPing, ctor[w].pubPing}) => ctor[w].err # "nil"
        /\ ctor[w].fn = "NewPublishWatcher" =>
              /\ ctor[w].err = "nil"
              /\ ctor[w].subPing = "unsent" /\ ctor[w].pubPing = "unsent"
              /\ ctor[w].subs = 0 /\ pc[w] = "none" /\ subscr[w] = "none"
              /\ subClient[w] = "nil"

MissingConfiguration(o) ==
    \/ Len(o.Addresses) = 0
    \/ o.Namespace = ""
    \/ o.UseSentinel /\ o.MasterName = ""

\* C8: NewWatcher called with an empty address list, an empty namespace, or
\* sentinel mode without a master name returns a configuration error and no
\* watcher, before any connection is created, any probe is sent or any
\* subscription is issued.
C8_ConfigurationErrorFirst ==
    \A w \in Watchers :
        (ctor[w].fn = "NewWatcher" /\ MissingConfiguration(ctor[w].arg)) =>
            /\ ctor[w].err \in ConfigErrors
            /\ ctor[w].conns = 0
            /\ ctor[w].subPing = "unsent" /\ ctor[w].pubPing = "unsent"
            /\ ctor[w].subs = 0
            /\ closeCh[w] = "nil" /\ subClient[w] = "nil" /\ pubClient[w] = "nil"
            /\ subscr[w] = "none" /\ pc[w] = "none"

C8_Witness ==
    \E w \in Watchers :
        /\ ctor[w].fn = "NewWatcher"
        /\ ctor[w].arg.Namespace = "" /\ Len(ctor[w].arg.Addresses) > 0
        /\ ctor[w].err = "redis: missing key namespace"

C9_State ==
    \A i \in DOMAIN sent :
        sent[i].method \in UpdateMethods => sent[i].ret = sent[i].err

C9_Step ==
    calls'.pub # calls.pub =>
        /\ calls'.pub = calls.pub + 1
        /\ Len(sent') = Len(sent) + 1
        /\ sent'[Len(sent')].method \in UpdateMethods
        /\ sent'[Len(sent')].err # "nil" =>
              UNCHANGED <<pc, subClient, pubClient, subscr, ch, callback,
                          options, closeCh, released, panicked, cur, invoked,
                          l, got, closeErrs>>

\* C9: every Update* call makes one publish attempt and returns exactly its
\* error (nil on success); a failed publish changes nothing else: the loop,
\* both connections, the subscription, the stream, the callback and the
\* options stay as they were.
C9_PublishErrorReturned == [](C9_State) /\ [][C9_Step]_vars

C9_Witness ==
    \E i \in DOMAIN sent :
        /\ sent[i].method \in UpdateMethods
        /\ sent[i].err = "transport error" /\ sent[i].ret = "transport error"
        /\ pc[sent[i].from] = "recv" /\ subscr[sent[i].from] = "active"
        /\ pubClient[sent[i].from] = "open" /\ subClient[sent[i].from] = "open"

\* What every envelope carries, whatever the operation.
EnvelopeHeader(e) ==
    /\ e.payload.t = "json"
    /\ e.chan = options[e.from].Channel
    /\ e.payload.Method = e.method
    /\ e.payload.ID = options[e.from].LocalID
    /\ e.method \in {"UpdateForAddPolicy", "UpdateForRemovePolicy",
                     "UpdateForRemoveFilteredPolicy"} =>
          e.payload.Sec = e.call.sec /\ e.payload.Ptype = e.call.ptype

\* C10 as stated: every envelope of an Update* operation carries the method,
\* the publisher's instance identifier, the section and policy type, and for
\* UpdateForAddPolicy and UpdateForRemovePolicy the field values as a list in
\* call order.
C10_EnvelopeCarriesList ==
    \A i \in DOMAIN sent :
        (sent[i].method \in UpdateMethods /\ sent[i].err = "nil") =>
            /\ EnvelopeHeader(sent[i])
            /\ sent[i].method \in {"UpdateForAddPolicy", "UpdateForRemovePolicy"} =>
                  sent[i].payload.Params = [j |-> "array", v |-> sent[i].call.values.v]

\* C10 amended: as stated, except that a call of UpdateForAddPolicy or
\* UpdateForRemovePolicy that passes no field values (a nil slice) carries
\* null in place of the list.
C10_EnvelopeCarriesListOrNull ==
    \A i \in DOMAIN sent :
        (sent[i].method \in UpdateMethods /\ sent[i].err = "nil") =>
            /\ EnvelopeHeader(sent[i])
            /\ sent[i].method \in {"UpdateForAddPolicy", "UpdateForRemovePolicy"} =>
                  sent[i].payload.Params =
                      IF sent[i].call.values.isNil
                      THEN [j |-> "null", v |-> <<>>]
                      ELSE [j |-> "array", v |-> sent[i].call.values.v]

C10_Witness ==
    \E i \in DOMAIN sent :
        /\ sent[i].method = "UpdateForAddPolicy" /\ sent[i].err = "nil"
        /\ sent[i].call.values.v = <<"alice", "book1", "write">>
        /\ sent[i].payload.Params.v = <<"alice", "book1", "write">>
        /\ sent[i].payload.Sec = "p" /\ sent[i].payload.Ptype = "p2"

Digits == <<"0", "1", "2", "3", "4", "5", "6", "7", "8", "9">>

\* The decimal numeral of a natural number.
RECURSIVE Decimal(_)
Decimal(n) ==
    IF n < 10 THEN Digits[n + 1] ELSE Decimal(n \div 10) \o Digits[(n % 10) + 1]

\* Each value preceded by one space.
RECURSIVE Spaced(_)
Spaced(vs) == IF vs = <<>> THEN "" ELSE " " \o Head(vs) \o Spaced(Tail(vs))

\* "<fieldIndex> <fieldValues joined by single spaces>"
FilteredPayload(fieldIndex, vs) ==
    Decimal(fieldIndex) \o (IF vs = <<>> THEN " " ELSE Spaced(vs))

\* C11: every envelope published by UpdateForRemoveFilteredPolicy carries as
\* payload the single string made of the decimal fieldIndex, one space and the
\* fieldValues joined by single spaces in call order; fieldIndex 1 with the
\* values data1, read gives exactly "1 data1 read".
C11_FilteredPayloadString ==
    \A i \in DOMAIN sent :
        (sent[i].method = "UpdateForRemoveFilteredPolicy" /\ sent[i].err = "nil") =>
            /\ sent[i].payload.Params =
                  [j |-> "string",
                   v |-> <<FilteredPayload(sent[i].call.fieldIndex,
                                           sent[i].call.values.v)>>]
            /\ (sent[i].call.fieldIndex = 1
                    /\ sent[i].call.values.v = <<"data1", "read">>)
                  => sent[i].payload.Params.v = <<"1 data1 read">>

C11_Witness ==
    \E i \in DOMAIN sent :
        /\ sent[i].method = "UpdateForRemoveFilteredPolicy" /\ sent[i].err = "nil"
        /\ sent[i].call.fieldIndex = 1
        /\ sent[i].call.values.v = <<"data1", "read">>
        /\ sent[i].payload.Params.v = <<"1 data1 read">>
        /\ sent[i].to # {}

Generic(g) ==
    IF g.isNil THEN GoNil
    ELSE CASE g.k = "string" -> g
           [] g.k = "[]string" -> [g EXCEPT !.k = "[]interface{}"]
           [] g.k = "model.Model" -> [g EXCEPT !.k = "map[string]interface{}"]
           [] OTHER -> g

C13_UndecodableDropped ==
    \A w \in Watchers : \A j \in DOMAIN invoked[w] :
        UnmarshalOk(invoked[w][j].payload)

\* The invocations that began after Close() had set the shutdown signal.
BegunAfterShutdown(w) == {j \in DOMAIN invoked[w] : invoked[w][j].shut}

C14_State ==
    \A w \in Watchers :
        /\ Cardinality(BegunAfterShutdown(w)) <= 1
        /\ pc[w] = "closed" => closeCh[w] = "closed" /\ ch[w] = <<>>

C14_Step ==
    \A w \in Watchers :
        /\ (pc[w] = "recv" /\ pc'[w] # "recv" /\ closeCh[w] = "closed") =>
              pc'[w] = "closed" /\ invoked'[w] = invoked[w]
        /\ (pc[w] = "recv" /\ pc'[w] = "closed") => closeCh[w] = "closed"
        /\ pc[w] = "closed" => pc'[w] = "closed" /\ invoked'[w] = invoked[w]
        /\ (invoked'[w] # invoked[w] /\ closeCh[w] = "closed") =>
              pc[w] = "call" /\ BegunAfterShutdown(w) = {}

\* C14: the loop checks the shutdown signal before it dispatches a message:
\* when the signal is set at the check the loop goes to Closed and invokes
\* the callback neither for that message nor for a later one; after Close()
\* set the signal at most one more invocation begins, for the message whose
\* check had already passed.
C14_ShutdownCheckedBeforeDispatch == [](C14_State) /\ [][C14_Step]_vars

C14_Witness ==
    \E w \in Watchers :
        /\ pc[w] = "closed"
        /\ Cardinality(BegunAfterShutdown(w)) = 1
        /\ Len(Delivered(w)) > Len(invoked[w])

\* Nothing is left to happen for w without a new call or new traffic.
Settled(w) ==
    /\ l[w] = "unlocked"
    /\ subscr[w] # "pending"
    /\ pc[w] \notin {"call", "incb"}
    /\ ~(pc[w] = "recv" /\ ch[w] # <<>>)

\* C15: once Close() was called on a constructed watcher and everything
\* that call set in motion has run, the subscriber loop (when the watcher has
\* one) is Closed and no connection of the watcher is left open.
C15_CloseReleasesAll ==
    \A w \in Watchers :
        (Alive(w) /\ closeCh[w] = "closed" /\ Settled(w)) =>
            /\ pc[w] \in {"closed", "none"}
            /\ pubClient[w] # "open" /\ subClient[w] # "open"

C16_State ==
    \A w \in Watchers :
        /\ released[w] \in {<<>>, <<"sub", "pubClient", "subClient">>}
        /\ pc[w] \in {"closed", "panic"} <=> released[w] # <<>>
        /\ closeErrs[w] # {} => released[w] # <<>>
        /\ released[w] # <<>> =>
              /\ subscr[w] = "closed" /\ pubClient[w] = "closed"
              /\ subClient[w] = "closed"

C16_Step ==
    \A w \in Watchers :
        released'[w] # released[w] =>
            /\ released[w] = <<>>
            /\ sent' = sent /\ calls' = calls /\ l' = l
            /\ pc'[w] = "closed" => panicked' = panicked

C17_CallbackReadSerialised ==
    \A w \in Watchers : \A j \in DOMAIN invoked[w] :
        invoked[w][j].cb = invoked[w][j].reg

C18_State ==
    \A w \in Watchers :
        Alive(w) =>
            \/ l[w] = "unlocked"
            \/ l[w] = "Close" /\ closeCh[w] = "closed"

C18_Step ==
    \A w \in Watchers :
        /\ (calls'.pub # calls.pub \/ calls'.set # calls.set
                \/ calls'.get # calls.get) => l' = l
        /\ (pc[w] = "incb" /\ (calls' # calls \/ l'[w] # l[w])) =>
              pc'[w] = "incb" \/ panicked'[w] # "none"
        /\ (l[w] = "Close" /\ l'[w] # l[w]) => l'[w] = "unlocked"

\* C18: the mutex is free whenever no operation is running, and held only
\* between the two statements of a Close() that can always go on; an
\* operation called on the watcher while its callback runs acquires the
\* mutex, returns and leaves the callback able to return; every caller-side
\* operation releases the mutex on every path, a failed publish included.
C18_NoMutexDeadlock == [](C18_State) /\ [][C18_Step]_vars

C18_Witness ==
    \E w \in Watchers :
        /\ got[w].called /\ got[w].during = "incb"
        /\ got[w].ret = options[w]
        /\ pc[w] = "recv" /\ Len(invoked[w]) >= 1
        /\ l[w] = "unlocked"

\* A message in b's hands that a peer published: the "Close" notice while b
\* itself has not been closed, or an envelope of another instance.
FromPeer(b, m) ==
    \/ m = CloseNotice /\ closeCh[b] = "open"
    \/ m.t = "json" /\ m.ID # options[b].LocalID

\* C19: closing a watcher never shuts down a peer: a watcher's loop is Closed
\* only after its own Close(), and a message of a peer (its Close notice
\* included) leaves the loop running and both connections open.
C19_PeerNeverShutDown ==
    \A b \in Watchers :
        /\ pc[b] = "closed" => closeCh[b] = "closed"
        /\ (closeCh[b] = "open" /\ FromPeer(b, cur[b].msg)) =>
              /\ pc[b] \notin {"closed", "panic"}
              /\ pubClient[b] = "open" /\ subClient[b] = "open"
              /\ subscr[b] # "closed"

\* The place of publish i in w's receive stream.
StreamPos(w, i) == Cardinality({j \in 1..i : w \in sent[j].to})

\* C20: the Close notice a watcher's own Close() published is never
\* dispatched to that watcher's callback: every message the loop has
\* dispatched or holds for dispatch came before it in the stream.
C20_OwnCloseNoticeNeverDispatched ==
    \A w \in Watchers : \A i \in DOMAIN sent :
        (sent[i].method = "Close" /\ sent[i].from = w /\ w \in sent[i].to) =>
            Len(invoked[w]) + Len(Held(w)) < StreamPos(w, i)

C20_Witness ==
    \E w \in Watchers : \E i \in DOMAIN sent :
        /\ sent[i].method = "Close" /\ sent[i].from = w /\ w \in sent[i].to
        /\ pc[w] = "closed" /\ Len(invoked[w]) >= 1
        /\ StreamPos(w, i) = Len(invoked[w]) + 1

====
